---- MODULE Spec2Model ----
(***************************************************************************)
(* Model of the incubator application filler:                              *)
(*   src/src/incubator_application.py   IncubatorQuestion,                 *)
(*                                      IncubatorApplication               *)
(*   src/incubator_application_filler.py   the fill command                *)
(*                                                                         *)
(* Texts that the code slices, trims or normalises are sequences of        *)
(* one-character strings; identifiers that the code only compares are      *)
(* TLA+ strings.  An optional value (Python None, or a key missing from a  *)
(* JSON object) is <<>> and a present value v is <<v>>.                    *)
(***************************************************************************)
EXTENDS Integers, Sequences, FiniteSets, TLC

\* Bound on the number of questions of an application.
MaxQuestions == 2

None == <<>>
Some(x) == <<x>>

(***************************************************************************)
(* Python string operations used by the code.                              *)
(***************************************************************************)
Whitespace == {" ", "\n", "\t"}

RECURSIVE lstrip(_)
lstrip(s) == IF s # <<>> /\ Head(s) \in Whitespace THEN lstrip(Tail(s)) ELSE s

RECURSIVE rstrip(_)
rstrip(s) ==
    IF s # <<>> /\ s[Len(s)] \in Whitespace
    THEN rstrip(SubSeq(s, 1, Len(s) - 1))
    ELSE s

\* str.strip()
strip(s) == rstrip(lstrip(s))

\* s[:n]
Slice(s, n) ==
    IF n >= 0
    THEN SubSeq(s, 1, IF n < Len(s) THEN n ELSE Len(s))
    ELSE SubSeq(s, 1, IF Len(s) + n > 0 THEN Len(s) + n ELSE 0)

\* str.startswith(prefix)
startswith(s, prefix) ==
    Len(s) >= Len(prefix) /\ SubSeq(s, 1, Len(prefix)) = prefix

UpperCase ==
    <<"A", "B", "C", "D", "E", "F", "G", "H", "I", "J", "K", "L", "M",
      "N", "O", "P", "Q", "R", "S", "T", "U", "V", "W", "X", "Y", "Z">>
LowerCase ==
    <<"a", "b", "c", "d", "e", "f", "g", "h", "i", "j", "k", "l", "m",
      "n", "o", "p", "q", "r", "s", "t", "u", "v", "w", "x", "y", "z">>
LowerOf(c) ==
    IF \E i \in 1..Len(UpperCase) : UpperCase[i] = c
    THEN LowerCase[CHOOSE i \in 1..Len(UpperCase) : UpperCase[i] = c]
    ELSE c

\* str.lower()
lower(s) == [i \in 1..Len(s) |-> LowerOf(s[i])]

\* str.replace(old, new) for a one-character old
RECURSIVE replace(_, _, _)
replace(s, old, new) ==
    IF s = <<>>
    THEN <<>>
    ELSE (IF Head(s) = old THEN new ELSE <<Head(s)>>) \o replace(Tail(s), old, new)

(***************************************************************************)
(* IncubatorQuestion and the methods of IncubatorApplication, as functions *)
(* of the fields they read.                                                *)
(***************************************************************************)
IncubatorQuestion(question_id, question_text, max_chars, expected_content) ==
    [question_id |-> question_id, question_text |-> question_text,
     max_chars |-> max_chars, expected_content |-> expected_content,
     answered |-> FALSE, answer |-> <<>>]

\* __post_init__: the id computed from program_name and deadline
post_init(name, dl) ==
    lower(replace(name, " ", <<"_">>)) \o <<"_">> \o replace(dl, "-", <<>>)

\* A variant of add_question that inserts the new question at the front.
add_question_front(qs, question_id, question_text, max_chars, expected_content) ==
    <<IncubatorQuestion(question_id, question_text, max_chars,
                        expected_content)>> \o qs

add_question(qs, question_id, question_text, max_chars, expected_content) ==
    Append(qs, IncubatorQuestion(question_id, question_text, max_chars,
                                 expected_content))

\* A variant of FirstMatch that keeps scanning: the last match wins.
FirstMatchLast(qs, oid) ==
    IF oid # None /\ \E i \in 1..Len(qs) : qs[i].question_id = oid[1]
    THEN CHOOSE i \in 1..Len(qs) :
            /\ qs[i].question_id = oid[1]
            /\ \A j \in (i + 1)..Len(qs) : qs[j].question_id # oid[1]
    ELSE 0

\* The index of the first question whose question_id equals the optional
\* id oid, 0 when there is none (None equals no question_id).
FirstMatch(qs, oid) ==
    IF oid # None /\ \E i \in 1..Len(qs) : qs[i].question_id = oid[1]
    THEN CHOOSE i \in 1..Len(qs) :
            /\ qs[i].question_id = oid[1]
            /\ \A j \in 1..(i - 1) : qs[j].question_id # oid[1]
    ELSE 0

\* answer_question: the questions afterwards and the value returned
answer_question(qs, oid, text) ==
    LET i == FirstMatch(qs, oid) IN
    IF i = 0
    THEN [questions |-> qs, ret |-> FALSE]
    ELSE [questions |-> [qs EXCEPT ![i].answer = text, ![i].answered = TRUE],
          ret |-> TRUE]

\* Python truthiness of an Optional[int]
Truthy(max_chars) == max_chars # None /\ max_chars[1] # 0

\* A variant of BackendFamily whose else branch falls back to the first family.
BackendFamilyDefault(model_name) ==
    IF startswith(model_name, <<"c", "l", "a", "u", "d", "e">>)
    THEN "ChatAnthropic"
    ELSE IF startswith(model_name, <<"g", "e", "m", "i", "n", "i">>)
         THEN "ChatGoogleGenerativeAI"
    ELSE "ChatOpenAI"

\* The backend family generate_answers selects for a model name,
\* "unsupported" when it raises ValueError instead.
BackendFamily(model_name) ==
    IF startswith(model_name, <<"g", "p", "t">>) THEN "ChatOpenAI"
    ELSE IF startswith(model_name, <<"c", "l", "a", "u", "d", "e">>)
         THEN "ChatAnthropic"
    ELSE IF startswith(model_name, <<"g", "e", "m", "i", "n", "i">>)
         THEN "ChatGoogleGenerativeAI"
    ELSE "unsupported"

\* A variant of PostProcess that cuts one character early.
PostProcessOffByOne(response, max_chars) ==
    strip(IF Truthy(max_chars) /\ Len(response) > max_chars[1]
          THEN Slice(response, max_chars[1] - 1)
          ELSE response)

\* What generate_answers stores for a response of the backend
PostProcess(response, max_chars) ==
    strip(IF Truthy(max_chars) /\ Len(response) > max_chars[1]
          THEN Slice(response, max_chars[1])
          ELSE response)

\* chain.run for question i.  outcomes[i] is what the backend does when it
\* is called for question i: [ok |-> FALSE] when the call raises, else the
\* text it returns; a call outcomes does not provide for raises.
ChainRun(outcomes, i) ==
    IF i \in DOMAIN outcomes THEN outcomes[i] ELSE [ok |-> FALSE, text |-> <<>>]

\* A variant of GenerateLoop whose failure handling leaves the loop.
RECURSIVE GenerateLoopAbort(_, _, _, _)
GenerateLoopAbort(qs, i, outcomes, log) ==
    IF i > Len(qs)
    THEN [questions |-> qs, log |-> log]
    ELSE IF qs[i].answered
    THEN GenerateLoopAbort(qs, i + 1, outcomes, log)
    ELSE IF ChainRun(outcomes, i).ok
    THEN GenerateLoopAbort(
            [qs EXCEPT ![i].answer = PostProcess(ChainRun(outcomes, i).text,
                                                 qs[i].max_chars),
                       ![i].answered = TRUE],
            i + 1, outcomes,
            Append(log, [index |-> i, ok |-> TRUE,
                         text |-> ChainRun(outcomes, i).text]))
    ELSE [questions |-> qs,
          log |-> Append(log, [index |-> i, ok |-> FALSE, text |-> <<>>])]

\* A variant of GenerateLoop without the test of the answered flag.
RECURSIVE GenerateLoopNoGuard(_, _, _, _)
GenerateLoopNoGuard(qs, i, outcomes, log) ==
    IF i > Len(qs)
    THEN [questions |-> qs, log |-> log]
    ELSE IF ChainRun(outcomes, i).ok
    THEN GenerateLoopNoGuard(
            [qs EXCEPT ![i].answer = PostProcess(ChainRun(outcomes, i).text,
                                                 qs[i].max_chars),
                       ![i].answered = TRUE],
            i + 1, outcomes,
            Append(log, [index |-> i, ok |-> TRUE,
                         text |-> ChainRun(outcomes, i).text]))
    ELSE GenerateLoopNoGuard(qs, i + 1, outcomes,
            Append(log, [index |-> i, ok |-> FALSE, text |-> <<>>]))

\* The loop of generate_answers from question i on; log collects the calls
\* made to the backend, in order.
RECURSIVE GenerateLoop(_, _, _, _)
GenerateLoop(qs, i, outcomes, log) ==
    IF i > Len(qs)
    THEN [questions |-> qs, log |-> log]
    ELSE IF qs[i].answered
    THEN GenerateLoop(qs, i + 1, outcomes, log)
    ELSE IF ChainRun(outcomes, i).ok
    THEN GenerateLoop(
            [qs EXCEPT ![i].answer = PostProcess(ChainRun(outcomes, i).text,
                                                 qs[i].max_chars),
                       ![i].answered = TRUE],
            i + 1, outcomes,
            Append(log, [index |-> i, ok |-> TRUE,
                         text |-> ChainRun(outcomes, i).text]))
    ELSE GenerateLoop(qs, i + 1, outcomes,
            Append(log, [index |-> i, ok |-> FALSE, text |-> <<>>]))

\* generate_answers: raised is "" when the call returns
generate_answers(qs, profile, model_name, outcomes) ==
    IF profile = None
    THEN [questions |-> qs, log |-> <<>>, family |-> "", raised |-> "ValueError"]
    ELSE IF BackendFamily(model_name) = "unsupported"
    THEN [questions |-> qs, log |-> <<>>, family |-> "", raised |-> "ValueError"]
    ELSE LET r == GenerateLoop(qs, 1, outcomes, <<>>) IN
         [questions |-> r.questions, log |-> r.log,
          family |-> BackendFamily(model_name), raised |-> ""]

\* A variant of ExportedAnswers without the filter on answered.
ExportedAnswersAll(qs) ==
    [i \in 1..Len(qs) |->
        [isObject |-> TRUE,
         question_id |-> Some(qs[i].question_id),
         question |-> Some(qs[i].question_text),
         answer |-> Some(qs[i].answer)]]

\* The answers array export_answers writes
ExportedAnswers(qs) ==
    LET answered == SelectSeq(qs, LAMBDA q : q.answered) IN
    [i \in 1..Len(answered) |->
        [isObject |-> TRUE,
         question_id |-> Some(answered[i].question_id),
         question |-> Some(answered[i].question_text),
         answer |-> Some(answered[i].answer)]]

\* The document export_answers writes
export_answers(name, url, dl, qs) ==
    [kind |-> "object",
     program_name |-> Some(name), application_url |-> Some(url),
     deadline |-> Some(dl), questions |-> None,
     answers |-> Some([iterable |-> TRUE, items |-> ExportedAnswers(qs)])]

\* dict.get(key, default) for an optional field
GetOr(field, default) == IF field = None THEN default ELSE field[1]

\* "q" followed by the decimal number n
DefaultId(n) == "q" \o ToString(n)

\* A variant of LoadQuestions that passes over an entry it cannot read.
RECURSIVE LoadQuestionsSkipBad(_, _)
LoadQuestionsSkipBad(qs, items) ==
    IF items = <<>>
    THEN [questions |-> qs, ok |-> TRUE]
    ELSE IF ~Head(items).isObject
    THEN LoadQuestionsSkipBad(qs, Tail(items))
    ELSE LoadQuestionsSkipBad(
            add_question(qs,
                GetOr(Head(items).question_id, DefaultId(Len(qs) + 1)),
                GetOr(Head(items).question_text, ""),
                Head(items).max_chars,
                Head(items).expected_content),
            Tail(items))

\* The loop of load_from_json over the questions array; ok is FALSE when an
\* entry raised (it is no JSON object), and the entries before it stay added.
RECURSIVE LoadQuestions(_, _)
LoadQuestions(qs, items) ==
    IF items = <<>>
    THEN [questions |-> qs, ok |-> TRUE]
    ELSE IF ~Head(items).isObject
    THEN [questions |-> qs, ok |-> FALSE]
    ELSE LoadQuestions(
            add_question(qs,
                GetOr(Head(items).question_id, DefaultId(Len(qs) + 1)),
                GetOr(Head(items).question_text, ""),
                Head(items).max_chars,
                Head(items).expected_content),
            Tail(items))

\* The loop of load_from_json over the answers array
RECURSIVE LoadAnswers(_, _)
LoadAnswers(qs, items) ==
    IF items = <<>>
    THEN [questions |-> qs, ok |-> TRUE]
    ELSE IF ~Head(items).isObject
    THEN [questions |-> qs, ok |-> FALSE]
    ELSE LoadAnswers(
            answer_question(qs, Head(items).question_id,
                            GetOr(Head(items).answer, <<>>)).questions,
            Tail(items))

\* data.get(key, []) followed by the for loop: an absent key is the empty
\* list, a value that cannot be iterated raises.
ItemsOf(field) == IF field = None THEN <<>> ELSE field[1].items
Iterable(field) == field = None \/ field[1].iterable

\* load_from_json on the application fields app and the document doc
load_from_json(app, doc) ==
    IF doc.kind # "object"
    THEN [app EXCEPT !.ret = FALSE]
    ELSE LET meta == [app EXCEPT
                        !.program_name = GetOr(doc.program_name, app.program_name),
                        !.application_url = GetOr(doc.application_url, app.application_url),
                        !.deadline = GetOr(doc.deadline, app.deadline)]
             lq == LoadQuestions(app.questions, ItemsOf(doc.questions))
             la == LoadAnswers(lq.questions, ItemsOf(doc.answers))
         IN  IF ~Iterable(doc.questions)
             THEN [meta EXCEPT !.ret = FALSE]
             ELSE IF ~lq.ok \/ ~Iterable(doc.answers)
             THEN [meta EXCEPT !.questions = lq.questions, !.ret = FALSE]
             ELSE [meta EXCEPT !.questions = la.questions, !.ret = la.ok]

(***************************************************************************)
(* The fill command.                                                       *)
(***************************************************************************)
\* Python "not api_key" for an optional string
Falsy(key) == key = None \/ key = Some("")

\* Lines 26-44 of fill: the key handed on, or stop when fill returns there
ResolveKey(api_key, env, model) ==
    IF ~Falsy(api_key)
    THEN [stop |-> FALSE, key |-> api_key]
    ELSE LET k1 == env["OPENAI_API_KEY"] IN
         IF Falsy(k1) /\ startswith(model, <<"g", "p", "t">>)
         THEN [stop |-> TRUE, key |-> k1]
         ELSE IF startswith(model, <<"c", "l", "a", "u", "d", "e">>) /\ Falsy(k1)
         THEN [stop |-> Falsy(env["ANTHROPIC_API_KEY"]),
               key |-> env["ANTHROPIC_API_KEY"]]
         ELSE IF startswith(model, <<"g", "e", "m", "i", "n", "i">>) /\ Falsy(k1)
         THEN [stop |-> Falsy(env["GOOGLE_API_KEY"]),
               key |-> env["GOOGLE_API_KEY"]]
         ELSE [stop |-> FALSE, key |-> k1]

UnknownProgram ==
    <<"U", "n", "k", "n", "o", "w", "n", " ", "P", "r", "o", "g", "r", "a", "m">>
UnknownDeadline == <<"U", "n", "k", "n", "o", "w", "n">>

\* Lines 52-92 of fill, after the key was resolved: the application it
\* builds, the document it writes (None when it writes none) and the stage
\* it ends in: "template", "questions", "profile", "generate" or "export"
\* when that step raised, else "done".  built is FALSE while no
\* application object exists.
FillPipeline(template, valid_profile, model, outcomes, path) ==
    LET name == GetOr(template.program_name, UnknownProgram)
        url == GetOr(template.application_url, "")
        dl == GetOr(template.deadline, UnknownDeadline)
        lq == LoadQuestions(<<>>, ItemsOf(template.questions))
        profile == IF valid_profile THEN Some("profile") ELSE None
        g == generate_answers(lq.questions, profile, model, outcomes)
        app == [built |-> TRUE, program_name |-> name, application_url |-> url,
                deadline |-> dl, questions |-> <<>>, project_profile |-> None,
                written |-> None, log |-> <<>>, stage |-> "done"]
    IN  IF template.kind # "object"
        THEN [app EXCEPT !.built = FALSE, !.stage = "template"]
        ELSE IF ~Iterable(template.questions) \/ ~lq.ok
        THEN [app EXCEPT !.questions = lq.questions, !.stage = "questions"]
        ELSE IF ~valid_profile
        THEN [app EXCEPT !.questions = lq.questions, !.stage = "profile"]
        ELSE IF g.raised # ""
        THEN [app EXCEPT !.questions = lq.questions, !.project_profile = profile,
                         !.stage = "generate"]
        ELSE IF path # "dir/file"
        THEN [app EXCEPT !.questions = g.questions, !.project_profile = profile,
                         !.log = g.log, !.stage = "export"]
        ELSE [app EXCEPT !.questions = g.questions, !.project_profile = profile,
                         !.log = g.log,
                         !.written = Some(export_answers(name, url, dl, g.questions))]

(***************************************************************************)
(* Inputs of the operations.                                               *)
(***************************************************************************)
ConstructorArgs ==
    {[program_name |-> <<"Y", " ", "C">>, application_url |-> "https://a",
      deadline |-> <<"2", "4", "-", "0", "1">>],
     [program_name |-> <<"T", "S">>, application_url |-> "https://b",
      deadline |-> <<"2", "5">>]}

QuestionInputs ==
    {[question_id |-> "q1", question_text |-> "What?",
      max_chars |-> Some(2), expected_content |-> Some("hint")],
     [question_id |-> "q2", question_text |-> "Why?",
      max_chars |-> None, expected_content |-> None]}

QuestionIds == {"q1", "q2", "q3"}
ManualAnswers == {<<"x", " ">>}

ModelNames ==
    {<<"g", "p", "t", "-", "4">>,
     <<"c", "l", "a", "u", "d", "e", "-", "3">>,
     <<"g", "e", "m", "i", "n", "i", "-", "p", "r", "o">>,
     <<"l", "l", "a", "m", "a", "-", "2">>}

\* What the backend may do on one call: fail, or return one of these texts
Responses ==
    {<<"a", "b", "c">>, <<"a", " ", "c">>, <<" ", "a", "b">>}
Outcomes ==
    {[ok |-> FALSE, text |-> <<>>]} \cup {[ok |-> TRUE, text |-> r] : r \in Responses}

\* Documents load_from_json may be given besides the exported file
NoDoc(kind) ==
    [kind |-> kind, program_name |-> None, application_url |-> None,
     deadline |-> None, questions |-> None, answers |-> None]
QEntry(id, text, max_chars, expected_content) ==
    [isObject |-> TRUE, question_id |-> id, question_text |-> text,
     max_chars |-> max_chars, expected_content |-> expected_content]
NotAQEntry ==
    [isObject |-> FALSE, question_id |-> None, question_text |-> None,
     max_chars |-> None, expected_content |-> None]
AEntry(id, answer) ==
    [isObject |-> TRUE, question_id |-> id, question |-> None, answer |-> answer]
NotAnAEntry ==
    [isObject |-> FALSE, question_id |-> None, question |-> None, answer |-> None]
List(items) == Some([iterable |-> TRUE, items |-> items])
NotAList == Some([iterable |-> FALSE, items |-> <<>>])

HandDocs ==
    {NoDoc("unreadable"), NoDoc("malformed"), NoDoc("nonobject"),
     \* a template: metadata and two questions, the second without id or text
     [NoDoc("object") EXCEPT
        !.program_name = Some(<<"T", "S">>),
        !.application_url = Some("https://b"),
        !.deadline = Some(<<"2", "5">>),
        !.questions = List(<<QEntry(Some("q1"), Some("What?"), Some(2), Some("hint")),
                             QEntry(None, None, None, None)>>)],
     \* a filled application: one question and answers, some of them unmatched
     [NoDoc("object") EXCEPT
        !.questions = List(<<QEntry(Some("q2"), Some("Why?"), None, None)>>),
        !.answers = List(<<AEntry(Some("q2"), Some(<<"x", " ">>)),
                           AEntry(Some("q3"), None),
                           AEntry(None, Some(<<"x", " ">>))>>)],
     \* wrong shapes
     [NoDoc("object") EXCEPT
        !.questions = List(<<QEntry(Some("q1"), Some("What?"), Some(2), Some("hint")),
                             NotAQEntry>>)],
     [NoDoc("object") EXCEPT !.questions = NotAList],
     [NoDoc("object") EXCEPT
        !.answers = List(<<AEntry(Some("q1"), None), NotAnAEntry>>)],
     [NoDoc("object") EXCEPT !.answers = NotAList]}

\* Where export_answers is asked to write: a path with a directory part, a
\* bare file name (os.makedirs("") raises), a path that cannot be written
ExportPaths == {"dir/file", "file", "unwritable"}

(***************************************************************************)
(* State.                                                                  *)
(***************************************************************************)
VARIABLES
    program_name,     \* IncubatorApplication.program_name
    application_url,  \* IncubatorApplication.application_url
    deadline,         \* IncubatorApplication.deadline
    id,               \* IncubatorApplication.id
    questions,        \* IncubatorApplication.questions
    project_profile,  \* IncubatorApplication.project_profile
    file,             \* the document at the export path, None before it exists
    environ,          \* os.environ: the three API-key variables
    last              \* the last operation: its inputs and its outcome

vars == <<program_name, application_url, deadline, id, questions,
          project_profile, file, environ, last>>

NoCall ==
    [op |-> "", ret |-> "", raised |-> "", question_id |-> None, text |-> <<>>,
     doc |-> None, model |-> <<>>, family |-> "", log |-> <<>>,
     api_key |-> None, key |-> None, stage |-> ""]

EnvVars == {"OPENAI_API_KEY", "ANTHROPIC_API_KEY", "GOOGLE_API_KEY"}

\* IncubatorApplication(program_name, application_url, deadline)
Constructed(name, url, dl) ==
    /\ program_name = name
    /\ application_url = url
    /\ deadline = dl
    /\ id = post_init(name, dl)
    /\ questions = <<>>
    /\ project_profile = None

Init ==
    /\ Constructed(<<"Y", " ", "C">>, "https://a", <<"2", "4", "-", "0", "1">>)
    /\ file = None
    /\ environ = [v \in EnvVars |-> None]
    /\ last = [NoCall EXCEPT !.op = "construct"]

AddQuestion ==
    \E q \in QuestionInputs :
        /\ Len(questions) < MaxQuestions
        /\ questions' = add_question(questions, q.question_id, q.question_text,
                                     q.max_chars, q.expected_content)
        /\ last' = [NoCall EXCEPT !.op = "add_question", !.ret = "question"]
        /\ UNCHANGED <<program_name, application_url, deadline, id,
                       project_profile, file, environ>>

\* load_project_profile: the file parses to a valid profile, or the call raises
LoadProjectProfile ==
    \E valid \in BOOLEAN :
        /\ project_profile' = IF valid THEN Some("profile") ELSE project_profile
        /\ last' = [NoCall EXCEPT !.op = "load_project_profile",
                                  !.raised = IF valid THEN "" ELSE "Exception"]
        /\ UNCHANGED <<program_name, application_url, deadline, id, questions,
                       file, environ>>

\* The effect of answer_question, given its result r
AnswerEffect(qid, answer, r) ==
    /\ questions' = r.questions
    /\ last' = [NoCall EXCEPT !.op = "answer_question",
                              !.ret = IF r.ret THEN "True" ELSE "False",
                              !.question_id = Some(qid), !.text = answer]
    /\ UNCHANGED <<program_name, application_url, deadline, id,
                   project_profile, file, environ>>

AnswerQuestion ==
    \E qid \in QuestionIds, answer \in ManualAnswers :
        AnswerEffect(qid, answer, answer_question(questions, Some(qid), answer))

\* The questions generate_answers is expected to call the backend for
Calls(qs, profile, model_name) ==
    IF profile = None \/ BackendFamily(model_name) = "unsupported"
    THEN {}
    ELSE {i \in 1..Len(qs) : ~qs[i].answered}

\* The effect of generate_answers, given its result r
GenerateEffect(model_name, r) ==
    /\ questions' = r.questions
    /\ last' = [NoCall EXCEPT !.op = "generate_answers",
                              !.ret = IF r.raised = "" THEN "answered" ELSE "",
                              !.raised = r.raised, !.model = model_name,
                              !.family = r.family, !.log = r.log]
    /\ UNCHANGED <<program_name, application_url, deadline, id,
                   project_profile, file, environ>>

\* The backend is an input: what it does on each of the calls
GenerateAnswers ==
    \E model_name \in ModelNames :
    \E outcomes \in [Calls(questions, project_profile, model_name) -> Outcomes] :
        GenerateEffect(model_name,
            generate_answers(questions, project_profile, model_name, outcomes))

ExportAnswers ==
    \E path \in ExportPaths :
        /\ file' = IF path = "dir/file"
                   THEN Some(export_answers(program_name, application_url,
                                            deadline, questions))
                   ELSE file
        /\ last' = [NoCall EXCEPT !.op = "export_answers",
                                  !.ret = IF path = "dir/file" THEN "path" ELSE "",
                                  !.raised = IF path = "dir/file" THEN "" ELSE "Exception"]
        /\ UNCHANGED <<program_name, application_url, deadline, id, questions,
                       project_profile, environ>>

\* The document found at the export path
FileDoc == IF file = None THEN NoDoc("unreadable") ELSE file[1]

\* The number of questions a document adds: the entries of its questions
\* array up to the first one that raises
Adds(doc) ==
    IF doc.kind = "object" /\ Iterable(doc.questions)
    THEN Len(LoadQuestions(<<>>, ItemsOf(doc.questions)).questions)
    ELSE 0

\* The effect of load_from_json, given its result r
LoadEffect(doc, r) ==
    /\ program_name' = r.program_name
    /\ application_url' = r.application_url
    /\ deadline' = r.deadline
    /\ questions' = r.questions
    /\ last' = [NoCall EXCEPT !.op = "load_from_json",
                              !.ret = IF r.ret THEN "True" ELSE "False",
                              !.doc = Some(doc)]
    /\ UNCHANGED <<id, project_profile, file, environ>>

LoadFromJson ==
    \E doc \in HandDocs \cup {FileDoc} :
        /\ Len(questions) + Adds(doc) <= MaxQuestions
        /\ LoadEffect(doc, load_from_json(
                [program_name |-> program_name, application_url |-> application_url,
                 deadline |-> deadline, questions |-> questions, ret |-> TRUE],
                doc))

\* A new application object; the file system stays
Construct ==
    \E args \in ConstructorArgs :
        /\ program_name' = args.program_name
        /\ application_url' = args.application_url
        /\ deadline' = args.deadline
        /\ id' = post_init(args.program_name, args.deadline)
        /\ questions' = <<>>
        /\ project_profile' = None
        /\ last' = [NoCall EXCEPT !.op = "construct"]
        /\ UNCHANGED <<file, environ>>

Next ==
    \/ AddQuestion
    \/ LoadProjectProfile
    \/ AnswerQuestion
    \/ GenerateAnswers
    \/ ExportAnswers
    \/ LoadFromJson

Spec == Init /\ [][Next]_vars

\* Persistence across application objects: the operations above, and the
\* construction of a new application while the written file stays.
RoundTripNext ==
    \/ AddQuestion
    \/ AnswerQuestion
    \/ ExportAnswers
    \/ LoadFromJson
    \/ Construct

RoundTripSpec == Init /\ [][RoundTripNext]_vars

\* The fill command, run in each environment
FillFlags == {None, Some("sk-flag")}
FillOutputs == {None, Some("file")}
FillTemplates == {d \in HandDocs : d.kind = "malformed" \/ d.program_name # None}
FillOutcomes == {o \in Outcomes : ~o.ok \/ o.text = <<"a", " ", "c">>}
Environments ==
    {[OPENAI_API_KEY |-> o, ANTHROPIC_API_KEY |-> a, GOOGLE_API_KEY |-> g] :
        o \in {None, Some("sk-openai")}, a \in {None, Some("sk-anthropic")},
        g \in {None, Some("sk-google")}}

FillInit ==
    /\ Constructed(<<"Y", " ", "C">>, "https://a", <<"2", "4", "-", "0", "1">>)
    /\ file = None
    /\ environ \in Environments
    /\ last = [NoCall EXCEPT !.op = "construct"]

\* The effect of fill, given the resolved key k and the pipeline's result r
FillEffect(api_key, model, k, r) ==
    LET ran == ~k.stop /\ r.built
    IN  /\ program_name' = IF ran THEN r.program_name ELSE program_name
        /\ application_url' = IF ran THEN r.application_url ELSE application_url
        /\ deadline' = IF ran THEN r.deadline ELSE deadline
        /\ id' = IF ran THEN post_init(r.program_name, r.deadline) ELSE id
        /\ questions' = IF ran THEN r.questions ELSE questions
        /\ project_profile' = IF ran THEN r.project_profile ELSE project_profile
        /\ file' = IF ~k.stop /\ r.written # None THEN r.written ELSE file
        /\ last' = [NoCall EXCEPT
                      !.op = "fill", !.api_key = api_key, !.model = model,
                      !.stage = IF k.stop THEN "stopped" ELSE r.stage,
                      !.key = IF ~k.stop /\ r.stage \in {"generate", "export", "done"}
                              THEN k.key ELSE None,
                      !.log = IF k.stop THEN <<>> ELSE r.log]
        /\ UNCHANGED environ

Fill ==
    \E api_key \in FillFlags, model \in ModelNames, output \in FillOutputs,
       template \in FillTemplates, valid_profile \in BOOLEAN :
    \E outcomes \in [IF valid_profile /\ template.kind = "object"
                      THEN Calls(LoadQuestions(<<>>, ItemsOf(template.questions)).questions,
                                 Some("profile"), model)
                      ELSE {} -> FillOutcomes] :
        \* without --output fill writes below incubator_applications/
        FillEffect(api_key, model, ResolveKey(api_key, environ, model),
                   FillPipeline(template, valid_profile, model, outcomes,
                                IF output = None THEN "dir/file" ELSE output[1]))

FillSpec == FillInit /\ [][Fill]_vars

(***************************************************************************)
(* Properties.  A step of an operation is recognised by last'.op; the      *)
(* unprimed variables are the state before the call.                       *)
(***************************************************************************)
Indices(log) == {log[k].index : k \in 1..Len(log)}
FailedCalls(log) == {log[k].index : k \in {n \in 1..Len(log) : ~log[n].ok}}
IsGenerate(l) == l.op = "generate_answers"
SupportedPrefix(model_name) ==
    \E n \in 1..Len(model_name) :
        SubSeq(model_name, 1, n) \in
            {<<"g", "p", "t">>, <<"c", "l", "a", "u", "d", "e">>,
             <<"g", "e", "m", "i", "n", "i">>}

\* C1: partial-failure isolation.  With a loaded profile and a supported
\* model name, generate_answers returns normally; when the backend calls fail
\* for exactly the questions M among the N unanswered ones, the N - |M|
\* others end answered, and those of M stay unanswered with their answer
\* unchanged: a failure never keeps a later question from being processed.
C1_PartialFailureIsolation ==
    [][(IsGenerate(last') /\ project_profile # None /\ SupportedPrefix(last'.model)) =>
          LET N == {i \in 1..Len(questions) : ~questions[i].answered}
              M == FailedCalls(last'.log)
          IN  /\ last'.raised = ""
              /\ Len(questions') = Len(questions)
              /\ M \subseteq N
              /\ \A i \in N \ M : questions'[i].answered
              /\ \A i \in M : ~questions'[i].answered
                              /\ questions'[i].answer = questions[i].answer
              /\ Cardinality({i \in N : questions'[i].answered})
                    = Cardinality(N) - Cardinality(M)]_vars

\* C1 witness: a call failed for one question and a later question was
\* answered by the same run.
C1_Witness ==
    /\ IsGenerate(last)
    /\ \E k, m \in 1..Len(last.log) :
          /\ k < m
          /\ ~last.log[k].ok /\ ~questions[last.log[k].index].answered
          /\ last.log[m].ok /\ questions[last.log[m].index].answered

\* C2 as stated: whenever max_chars is set and the response is longer, the
\* stored answer has length exactly max_chars.
C2_ExactLength ==
    IsGenerate(last) =>
        \A k \in 1..Len(last.log) :
            LET e == last.log[k]
                q == questions[e.index]
            IN  (e.ok /\ q.max_chars # None /\ Len(e.text) > q.max_chars[1])
                    => Len(q.answer) = q.max_chars[1]

\* C2 amended: whenever max_chars (a positive integer) is set and the
\* response is longer, the stored answer is the first max_chars characters
\* of the response with the whitespace at both ends removed: at most
\* max_chars long, and exactly max_chars long when those characters neither
\* begin nor end with whitespace.
C2_TruncateThenTrim ==
    IsGenerate(last) =>
        \A k \in 1..Len(last.log) :
            LET e == last.log[k]
                q == questions[e.index]
                n == q.max_chars[1]
                cut == SubSeq(e.text, 1, n)
            IN  (e.ok /\ q.max_chars # None /\ n > 0 /\ Len(e.text) > n) =>
                    /\ Len(q.answer) <= n
                    /\ (cut[1] \notin Whitespace /\ cut[n] \notin Whitespace)
                          => (q.answer = cut /\ Len(q.answer) = n)
                    /\ \E a \in 1..(n + 1), b \in 0..n :
                          /\ q.answer = SubSeq(cut, a, b)
                          /\ \A j \in 1..(a - 1) : cut[j] \in Whitespace
                          /\ \A j \in (b + 1)..n : cut[j] \in Whitespace
                    /\ q.answer # <<>> =>
                          /\ q.answer[1] \notin Whitespace
                          /\ q.answer[Len(q.answer)] \notin Whitespace

\* C2 witness: a response longer than max_chars whose cut ends in
\* whitespace was stored, shorter than max_chars.
C2_Witness ==
    /\ IsGenerate(last)
    /\ \E k \in 1..Len(last.log) :
          LET e == last.log[k]
              q == questions[e.index]
          IN  /\ e.ok /\ q.max_chars # None /\ Len(e.text) > q.max_chars[1]
              /\ e.text[q.max_chars[1]] \in Whitespace
              /\ q.answered /\ Len(q.answer) < q.max_chars[1]

\* C3: order preservation on export.  add_question appends at the end of
\* the sequence, and the answers array export_answers writes has exactly
\* one entry per answered question, in sequence order, and none for an
\* unanswered question.
C3_ExportOrder ==
    [][/\ last'.op = "add_question" =>
             /\ Len(questions') = Len(questions) + 1
             /\ SubSeq(questions', 1, Len(questions)) = questions
       /\ (last'.op = "export_answers" /\ last'.raised = "") =>
             LET A == {i \in 1..Len(questions) : questions[i].answered}
                 items == file'[1].answers[1].items
             IN  /\ file' # None
                 /\ Len(items) = Cardinality(A)
                 /\ \E f \in [1..Len(items) -> 1..Len(questions)] :
                       /\ \A k, m \in 1..Len(items) : k < m => f[k] < f[m]
                       /\ {f[k] : k \in 1..Len(items)} = A
                       /\ \A k \in 1..Len(items) :
                             /\ items[k].question_id = Some(questions[f[k]].question_id)
                             /\ items[k].question = Some(questions[f[k]].question_text)
                             /\ items[k].answer = Some(questions[f[k]].answer)]_vars

\* C3 witness: an export while the first question is unanswered and the
\* second answered: the first entry written is the second question's.
C3_Witness ==
    /\ last.op = "export_answers" /\ last.raised = "" /\ file # None
    /\ file[1].answers[1].items # <<>>
    /\ Len(questions) >= 2
    /\ ~questions[1].answered /\ questions[2].answered
    /\ file[1].answers[1].items[1].question_id = Some(questions[2].question_id)

\* C4: re-answer guard.  generate_answers calls the backend exactly for the
\* questions that are unanswered, once each and in sequence order, and
\* leaves every answered question as it was; a question whose call failed
\* in the run before is called again.
C4_ReanswerGuard ==
    [][(IsGenerate(last') /\ last'.raised = "") =>
          LET U == {i \in 1..Len(questions) : ~questions[i].answered}
              log == last'.log
          IN  /\ Indices(log) = U
              /\ Len(log) = Cardinality(U)
              /\ \A k, m \in 1..Len(log) : k < m => log[k].index < log[m].index
              /\ \A i \in (1..Len(questions)) \ U : questions'[i] = questions[i]
              /\ U = {} => (log = <<>> /\ questions' = questions)
              /\ IsGenerate(last) => FailedCalls(last.log) \subseteq Indices(log)]_vars

\* C4 witness: a run called the backend for one question and not for
\* another one, which was answered before the run.
C4_Witness ==
    /\ IsGenerate(last) /\ last.raised = ""
    /\ last.log # <<>>
    /\ \E i \in 1..Len(questions) : questions[i].answered /\ i \notin Indices(last.log)

\* C5: fatal errors.  Without a profile, or with a model name that begins
\* with none of gpt, claude, gemini, generate_answers raises, calls no
\* backend and changes no question; otherwise it selects the backend family
\* of the prefix and does not raise.
C5_FatalErrors ==
    [][IsGenerate(last') =>
          IF project_profile = None \/ ~SupportedPrefix(last'.model)
          THEN /\ last'.raised # ""
               /\ last'.log = <<>>
               /\ questions' = questions
          ELSE /\ last'.raised = ""
               /\ last'.family =
                    CASE SubSeq(last'.model, 1, 3) = <<"g", "p", "t">> -> "ChatOpenAI"
                      [] SubSeq(last'.model, 1, 6) = <<"c", "l", "a", "u", "d", "e">>
                            -> "ChatAnthropic"
                      [] OTHER -> "ChatGoogleGenerativeAI"]_vars

\* C5 witness: generate_answers raised for an unsupported model name although
\* a profile was loaded and a question was waiting.
C5_Witness ==
    /\ IsGenerate(last) /\ last.raised # ""
    /\ project_profile # None
    /\ \E i \in 1..Len(questions) : ~questions[i].answered

\* C6: answer_question(id, text) returns true exactly when some question
\* has that question_id; it then sets answer and answered on the first such
\* question and changes no other; without a match it returns false, raises
\* nothing and changes nothing.
C6_AnswerQuestion ==
    [][last'.op = "answer_question" =>
          LET matches == {i \in 1..Len(questions) :
                            questions[i].question_id = last'.question_id[1]}
          IN  /\ last'.raised = ""
              /\ (last'.ret = "True") <=> (matches # {})
              /\ (last'.ret = "False") <=> (matches = {})
              /\ Len(questions') = Len(questions)
              /\ matches = {} => questions' = questions
              /\ \A m \in matches :
                    (\A j \in matches : m <= j) =>
                        /\ questions'[m] = [questions[m] EXCEPT !.answer = last'.text,
                                                               !.answered = TRUE]
                        /\ \A i \in (1..Len(questions)) \ {m} :
                              questions'[i] = questions[i]]_vars

\* C6 witness: two questions share the id; the call answered the first and
\* left the second unanswered.
C6_Witness ==
    /\ last.op = "answer_question" /\ last.ret = "True"
    /\ \E i, j \in 1..Len(questions) :
          /\ i < j
          /\ questions[i].question_id = last.question_id[1]
          /\ questions[j].question_id = last.question_id[1]
          /\ questions[i].answered /\ questions[i].answer = last.text
          /\ ~questions[j].answered

\* C7 as stated, under RoundTripSpec: loading the document export_answers
\* wrote into a freshly constructed application restores program_name,
\* application_url and deadline, and every entry of the exported answers
\* array is afterwards a question with answered set and that answer.
C7_RoundTrip ==
    [][(last.op = "construct" /\ last'.op = "load_from_json"
            /\ file # None /\ last'.doc = file) =>
          LET d == file[1]
              items == d.answers[1].items
          IN  /\ last'.ret = "True"
              /\ program_name' = d.program_name[1]
              /\ application_url' = d.application_url[1]
              /\ deadline' = d.deadline[1]
              /\ \A k \in 1..Len(items) :
                    \E i \in 1..Len(questions') :
                        /\ questions'[i].question_id = items[k].question_id[1]
                        /\ questions'[i].answered
                        /\ questions'[i].answer = items[k].answer[1]]_vars

\* The documents on which load_from_json meets an exception
DocFails(d) ==
    \/ d.kind # "object"
    \/ d.questions # None /\ ~d.questions[1].iterable
    \/ d.answers # None /\ ~d.answers[1].iterable
    \/ d.questions # None /\ \E k \in 1..Len(d.questions[1].items) :
                                ~d.questions[1].items[k].isObject
    \/ d.answers # None /\ \E k \in 1..Len(d.answers[1].items) :
                              ~d.answers[1].items[k].isObject

\* C8: load_from_json never raises; it returns false on every document it
\* fails on (unreadable, malformed, wrong shape), and returns true only
\* when every entry of the questions array has been appended in document
\* order (missing fields defaulted) and every entry of the answers array
\* has been applied with answer_question.
C8_LoadSoftFailure ==
    [][last'.op = "load_from_json" =>
          LET d == last'.doc[1]
              n == Len(questions)
              qi == IF d.questions = None THEN <<>> ELSE d.questions[1].items
              ai == IF d.answers = None THEN <<>> ELSE d.answers[1].items
          IN  /\ last'.raised = ""
              /\ last'.ret \in {"True", "False"}
              /\ DocFails(d) => last'.ret = "False"
              /\ last'.ret = "True" =>
                    /\ ~DocFails(d)
                    /\ Len(questions') = n + Len(qi)
                    /\ \A k \in 1..n :
                          /\ questions'[k].question_id = questions[k].question_id
                          /\ questions'[k].question_text = questions[k].question_text
                    /\ \A k \in 1..Len(qi) :
                          /\ questions'[n + k].question_id =
                                (IF qi[k].question_id = None
                                 THEN "q" \o ToString(n + k)
                                 ELSE qi[k].question_id[1])
                          /\ questions'[n + k].question_text =
                                (IF qi[k].question_text = None THEN ""
                                 ELSE qi[k].question_text[1])
                          /\ questions'[n + k].max_chars = qi[k].max_chars
                          /\ questions'[n + k].expected_content = qi[k].expected_content
                    /\ \A k \in 1..Len(ai) :
                          LET matches == {i \in 1..Len(questions') :
                                            /\ ai[k].question_id # None
                                            /\ questions'[i].question_id
                                                  = ai[k].question_id[1]}
                          IN  \A m \in matches :
                                (\A j \in matches : m <= j) =>
                                    /\ questions'[m].answered
                                    /\ (\A k2 \in (k + 1)..Len(ai) :
                                            ai[k2].question_id # ai[k].question_id)
                                          => questions'[m].answer =
                                                (IF ai[k].answer = None THEN <<>>
                                                 ELSE ai[k].answer[1])]_vars

\* C8 witness: load_from_json returned true for a document with a questions
\* array and an answers array, and a question it added carries an answer of
\* the document.
C8_Witness ==
    /\ last.op = "load_from_json" /\ last.ret = "True"
    /\ last.doc[1].questions # None /\ last.doc[1].answers # None
    /\ last.doc[1].questions[1].items # <<>>
    /\ \E i \in 1..Len(questions), k \in 1..Len(last.doc[1].answers[1].items) :
          /\ questions[i].answered
          /\ Some(questions[i].question_id) = last.doc[1].answers[1].items[k].question_id
          /\ Some(questions[i].answer) = last.doc[1].answers[1].items[k].answer

\* The environment variable of a model's backend family
FamilyVariable(model) ==
    CASE SubSeq(model, 1, 3) = <<"g", "p", "t">> -> "OPENAI_API_KEY"
      [] SubSeq(model, 1, 6) = <<"c", "l", "a", "u", "d", "e">> -> "ANTHROPIC_API_KEY"
      [] OTHER -> "GOOGLE_API_KEY"

\* C9 as stated, under FillSpec: an explicit --api-key is the key handed to
\* generate_answers; without one the key is the value of the environment
\* variable of the model's family, and when that variable is absent
\* generate_answers is never called.
C9_CredentialResolution ==
    last.op = "fill" =>
        LET began == last.stage \in {"generate", "export", "done"} IN
        /\ last.api_key # None => (began => last.key = last.api_key)
        /\ (last.api_key = None /\ SupportedPrefix(last.model)) =>
              /\ environ[FamilyVariable(last.model)] = None => ~began
              /\ (environ[FamilyVariable(last.model)] # None /\ began)
                    => last.key = environ[FamilyVariable(last.model)]

\* C10 as stated: in every reachable state the id is the normalised
\* program_name (lowercased, spaces replaced by underscores), "_", and the
\* deadline without its hyphens.
C10_IdentityInvariant ==
    id = [i \in 1..Len(program_name) |->
            IF program_name[i] = " " THEN "_" ELSE LowerOf(program_name[i])]
         \o <<"_">> \o SelectSeq(deadline, LAMBDA c : c # "-")

\* C11: the question lifecycle is monotone.  In every step of add_question,
\* load_project_profile, answer_question, generate_answers, export_answers
\* and load_from_json, succeeding or failing, the question sequence only
\* grows at its end: every existing question keeps its position, its
\* question_id, question_text, max_chars and expected_content, and an
\* answered question stays answered.
C11_MonotoneLifecycle ==
    [][/\ Len(questions') >= Len(questions)
       /\ \A i \in 1..Len(questions) :
             /\ questions'[i].question_id = questions[i].question_id
             /\ questions'[i].question_text = questions[i].question_text
             /\ questions'[i].max_chars = questions[i].max_chars
             /\ questions'[i].expected_content = questions[i].expected_content
             /\ questions[i].answered => questions'[i].answered]_vars

\* C11 witness: a load_from_json that failed half-way appended a question of
\* its document behind an answered question, which is still answered.
C11_Witness ==
    /\ last.op = "load_from_json" /\ last.ret = "False"
    /\ Len(questions) = 2
    /\ questions[1].answered /\ ~questions[2].answered
    /\ last.doc[1].questions # None
    /\ last.doc[1].questions[1].iterable
    /\ last.doc[1].questions[1].items # <<>>
    /\ Some(questions[2].question_id) = last.doc[1].questions[1].items[1].question_id

====
